---- MODULE Spec2Model ----
(***************************************************************************)
(* Workout API: the Category, TrainingCenter and Athlete routers over a    *)
(* relational store.  Spec runs the handlers one request at a time; each   *)
(* action is one whole handler.  SpecConc (further down) splits the create *)
(* handlers at their awaits and interleaves several requests.              *)
(***************************************************************************)
EXTENDS Integers, FiniteSets, Sequences, TLC

\* ------------------------------------------------------------- bounds
\* uuid4() calls in one run of Spec: every create that reaches uuid4()
\* draws the next value, so this also bounds the rows ever inserted.
MaxUuid == 4
\* Requests in flight in SpecConc.
NReq == 2

\* ------------------------------------------------------ input domains
CatNomes == {"Iniciante", "Scale"}
CtNomes == {"CT King"}
Enderecos == {"Rua X"}
Proprietarios == {"Marcos"}
AtletaNomes == {"Joao"}
Cpfs == {"11111111111", "22222222222"}
Idades == {25}
Pesos == {75, 80}
Alturas == {170}
Sexos == {"M"}
\* Values datetime.utcnow() returns.
Times == {1000}
\* External ids a client can ask for.
Uuids == 1..MaxUuid

\* ------------------------------------------------------- HTTP statuses
HTTP_200_OK == 200
HTTP_201_CREATED == 201
HTTP_204_NO_CONTENT == 204
HTTP_303_SEE_OTHER == 303
HTTP_400_BAD_REQUEST == 400
HTTP_404_NOT_FOUND == 404
\* What the framework answers when an exception leaves the handler.
UNHANDLED == 500

VARIABLES
    categorias,     \* table of CategoriaModel rows
    centros,        \* table of CentroTreinamentoModel rows
    atletas,        \* table of AtletaModel rows
    nextUuid,       \* the next value uuid4() returns
    nextPk,         \* the next pk_id of each table's sequence
    last,           \* the request handled last and its response
    criados,        \* history: the 201 bodies of Athlete create whose
                    \* athlete no PATCH or DELETE has committed on since
    deleted,        \* history: ids a DELETE has committed on
    reqs            \* SpecConc: the requests in flight

vars == <<categorias, centros, atletas, nextUuid, nextPk, last,
          criados, deleted, reqs>>

store == <<categorias, centros, atletas>>
history == <<criados, deleted>>

\* ------------------------------------------------------------ schemas
CategoriaIn == [nome : CatNomes]
CentroTreinamentoIn ==
    [nome : CtNomes, endereco : Enderecos, proprietario : Proprietarios]
AtletaIn ==
    [nome : AtletaNomes, cpf : Cpfs, idade : Idades, peso : Pesos,
     altura : Alturas, sexo : Sexos,
     categoria : [nome : CatNomes], centro_treinamento : [nome : CtNomes]]

\* The fields a PATCH body may carry.
PatchFields == {"nome", "cpf", "idade", "peso", "altura", "sexo"}
PatchValues ==
    [nome : AtletaNomes, cpf : Cpfs, idade : Idades, peso : Pesos,
     altura : Alturas, sexo : Sexos]
\* The sets of fields the PATCH bodies of the model set explicitly: none,
\* one plain field, the unique field, both, and all six.
PatchDomains ==
    {{}, {"peso"}, {"cpf"}, {"cpf", "peso"}, {"nome"},
     {"idade", "altura", "sexo"}, PatchFields}
\* AtletaUpdate bodies: the fields of one of PatchDomains set explicitly.
AtletaUpdate == { [k \in D |-> v[k]] : D \in PatchDomains, v \in PatchValues }

\* model_dump(exclude_unset=True): the fields the body set.
ModelDumpExcludeUnset(atleta_up) == DOMAIN atleta_up

\* ------------------------------------------------------------- store
\* select(Model).filter_by(...): the rows that match.
CategoriaByNome(nome) == {c \in categorias : c.nome = nome}
CentroByNome(nome) == {c \in centros : c.nome = nome}
CategoriaById(id) == {c \in categorias : c.id = id}
CentroById(id) == {c \in centros : c.id = id}
AtletaById(id) == {a \in atletas : a.id = id}
AtletaByNome(nome) == {a \in atletas : a.nome = nome}
AtletaByCpf(cpf) == {a \in atletas : a.cpf = cpf}

\* The unique constraints the store enforces at flush/commit.
CategoriaIntegrityError(rows, row) ==
    \E r \in rows : r.pk_id # row.pk_id /\ r.nome = row.nome
CentroIntegrityError(rows, row) ==
    \E r \in rows : r.pk_id # row.pk_id /\ r.nome = row.nome
AtletaIntegrityError(rows, row) ==
    \E r \in rows : r.pk_id # row.pk_id /\ r.cpf = row.cpf

\* ------------------------------------------------------- conversions
CategoriaOut(id, categoria_in) == [id |-> id, nome |-> categoria_in.nome]
CategoriaModel(pk, out) == [pk_id |-> pk, id |-> out.id, nome |-> out.nome]
CategoriaRowOut(row) == [id |-> row.id, nome |-> row.nome]

CentroTreinamentoOut(id, ct_in) ==
    [id |-> id, nome |-> ct_in.nome, endereco |-> ct_in.endereco,
     proprietario |-> ct_in.proprietario]
CentroTreinamentoModel(pk, out) ==
    [pk_id |-> pk, id |-> out.id, nome |-> out.nome,
     endereco |-> out.endereco, proprietario |-> out.proprietario]
CentroRowOut(row) ==
    [id |-> row.id, nome |-> row.nome, endereco |-> row.endereco,
     proprietario |-> row.proprietario]

\* AtletaOut(id=uuid4(), criado_em=utcnow(), **atleta_in.model_dump())
AtletaOut(id, criado_em, atleta_in) ==
    [id |-> id, criado_em |-> criado_em,
     nome |-> atleta_in.nome, cpf |-> atleta_in.cpf,
     idade |-> atleta_in.idade, peso |-> atleta_in.peso,
     altura |-> atleta_in.altura, sexo |-> atleta_in.sexo,
     categoria |-> atleta_in.categoria,
     centro_treinamento |-> atleta_in.centro_treinamento]

\* Mutant: peso is filled from idade.
AtletaModelPesoFromIdade(pk, out, categoria, centro_treinamento) ==
    [pk_id |-> pk, id |-> out.id, criado_em |-> out.criado_em,
     nome |-> out.nome, cpf |-> out.cpf, idade |-> out.idade,
     peso |-> out.idade, altura |-> out.altura, sexo |-> out.sexo,
     categoria_id |-> categoria.pk_id,
     centro_treinamento_id |-> centro_treinamento.pk_id]

\* Mutant: categoria_id is set from the training center's row.
AtletaModelSwappedKeys(pk, out, categoria, centro_treinamento) ==
    [pk_id |-> pk, id |-> out.id, criado_em |-> out.criado_em,
     nome |-> out.nome, cpf |-> out.cpf, idade |-> out.idade,
     peso |-> out.peso, altura |-> out.altura, sexo |-> out.sexo,
     categoria_id |-> centro_treinamento.pk_id,
     centro_treinamento_id |-> centro_treinamento.pk_id]

\* AtletaModel(**out.model_dump(exclude={categoria, centro_treinamento}))
\* with the two foreign keys set from the rows the lookups returned.
AtletaModel(pk, out, categoria, centro_treinamento) ==
    [pk_id |-> pk, id |-> out.id, criado_em |-> out.criado_em,
     nome |-> out.nome, cpf |-> out.cpf, idade |-> out.idade,
     peso |-> out.peso, altura |-> out.altura, sexo |-> out.sexo,
     categoria_id |-> categoria.pk_id,
     centro_treinamento_id |-> centro_treinamento.pk_id]

\* response_model=AtletaOut over a row: the relationships follow the
\* foreign keys to the rows they name.
AtletaRowOut(row) ==
    [id |-> row.id, criado_em |-> row.criado_em,
     nome |-> row.nome, cpf |-> row.cpf, idade |-> row.idade,
     peso |-> row.peso, altura |-> row.altura, sexo |-> row.sexo,
     categoria |->
        [nome |-> (CHOOSE c \in categorias : c.pk_id = row.categoria_id).nome],
     centro_treinamento |->
        [nome |-> (CHOOSE c \in centros :
                      c.pk_id = row.centro_treinamento_id).nome]]

\* Mutant: model_dump() without exclude_unset, so an unset peso is
\* written back as empty (0 here).
SetAttrsUnsetToo(row, atleta_up) ==
    [k \in DOMAIN row |->
        IF k \in DOMAIN atleta_up THEN atleta_up[k]
        ELSE IF k = "peso" THEN 0 ELSE row[k]]

\* for key, value in atleta_update.items(): setattr(atleta, key, value)
SetAttrs(row, atleta_up) ==
    [k \in DOMAIN row |->
        IF k \in ModelDumpExcludeUnset(atleta_up) THEN atleta_up[k] ELSE row[k]]

\* ---------------------------------------------------------- responses
Response(op, status, exc, detail, body) ==
    [op |-> op, status |-> status, exc |-> exc, detail |-> detail,
     body |-> body]

NoDetail == [msg |-> "", value |-> ""]
Detail(msg, value) == [msg |-> msg, value |-> value]

Init ==
    /\ categorias = {}
    /\ centros = {}
    /\ atletas = {}
    /\ nextUuid = 1
    /\ nextPk = [categorias |-> 1, centros |-> 1, atletas |-> 1]
    /\ last = Response("none", HTTP_200_OK, "none", NoDetail, {})
    /\ criados = {}
    /\ deleted = {}
    /\ reqs = <<>>

\* .scalars().first(): one of the rows that match.
First(rows) == CHOOSE r \in rows : TRUE

\* ------------------------------------------------- Category router
\* Mutant: the IntegrityError is swallowed and the handler answers 201.
CategoriaExceptSwallowed(categoria_in, categoria_out) ==
    Response("categoria_create", HTTP_201_CREATED, "none", NoDetail,
             {categoria_out})

\* except IntegrityError: raise HTTPException(303, ...)
CategoriaExcept(categoria_in, categoria_out) ==
    Response("categoria_create", HTTP_303_SEE_OTHER,
             "HTTPException",
             Detail("Ja existe uma categoria cadastrada com esse nome",
                    categoria_out.nome), {})

CategoriaCreate(categoria_in) ==
    /\ nextUuid <= MaxUuid
    /\ LET categoria_out == CategoriaOut(nextUuid, categoria_in)
           categoria_model == CategoriaModel(nextPk.categorias, categoria_out)
       IN  IF CategoriaIntegrityError(categorias, categoria_model)
           THEN /\ last' = CategoriaExcept(categoria_in, categoria_out)
                /\ UNCHANGED <<categorias, nextPk>>
           ELSE /\ categorias' = categorias \cup {categoria_model}
                /\ nextPk' = [nextPk EXCEPT !.categorias = @ + 1]
                /\ last' = Response("categoria_create", HTTP_201_CREATED, "none", NoDetail,
                                    {categoria_out})
    /\ nextUuid' = nextUuid + 1
    /\ UNCHANGED <<centros, atletas, history, reqs>>

CategoriaGetById(id) ==
    /\ LET categoria == CategoriaById(id)
       IN  IF categoria = {}
           THEN last' = Response("categoria_get_by_id", HTTP_404_NOT_FOUND,
                                 "HTTPException",
                                 Detail("Categoria nao encontrada no id", id), {})
           ELSE last' = Response("categoria_get_by_id", HTTP_200_OK,
                                 "none", NoDetail,
                                 {CategoriaRowOut(First(categoria))})
    /\ UNCHANGED <<store, nextUuid, nextPk, history, reqs>>

\* --------------------------------------------- TrainingCenter router
\* Mutant: the except clause answers 201 with the unsaved entity.
CentroExceptSwallowed(centro_treinamento_in, centro_treinamento_out) ==
    Response("centro_create", HTTP_201_CREATED, "none", NoDetail,
             {centro_treinamento_out})

\* except IntegrityError: raise HTTPException(303, ...)
CentroExcept(centro_treinamento_in, centro_treinamento_out) ==
    Response("centro_create", HTTP_303_SEE_OTHER,
             "HTTPException",
             Detail("Ja existe um centro de treinamento cadastrado com esse nome",
                    centro_treinamento_out.nome), {})

CentroCreate(centro_treinamento_in) ==
    /\ nextUuid <= MaxUuid
    /\ LET centro_treinamento_out ==
               CentroTreinamentoOut(nextUuid, centro_treinamento_in)
           centro_treinamento_model ==
               CentroTreinamentoModel(nextPk.centros, centro_treinamento_out)
       IN  IF CentroIntegrityError(centros, centro_treinamento_model)
           THEN /\ last' = CentroExcept(centro_treinamento_in,
                                        centro_treinamento_out)
                /\ UNCHANGED <<centros, nextPk>>
           ELSE /\ centros' = centros \cup {centro_treinamento_model}
                /\ nextPk' = [nextPk EXCEPT !.centros = @ + 1]
                /\ last' = Response("centro_create", HTTP_201_CREATED, "none", NoDetail,
                                    {centro_treinamento_out})
    /\ nextUuid' = nextUuid + 1
    /\ UNCHANGED <<categorias, atletas, history, reqs>>

CentroGetById(id) ==
    /\ LET centro_treinamento == CentroById(id)
       IN  IF centro_treinamento = {}
           THEN last' = Response("centro_get_by_id", HTTP_404_NOT_FOUND,
                                 "HTTPException",
                                 Detail("Centro de treinamento nao encontrado no id",
                                        id), {})
           ELSE last' = Response("centro_get_by_id", HTTP_200_OK,
                                 "none", NoDetail,
                                 {CentroRowOut(First(centro_treinamento))})
    /\ UNCHANGED <<store, nextUuid, nextPk, history, reqs>>

\* ---------------------------------------------------- Athlete router
\* Mutant: a missing category is answered as 404.
PostCategoriaNotFoundAs404(atleta_in, categoria_name) ==
    Response("atleta_post", HTTP_404_NOT_FOUND, "HTTPException",
             Detail("A Categoria nao encontrada", categoria_name), {})

\* if not categoria: raise HTTPException(400, ...)
PostCategoriaNotFound(atleta_in, categoria_name) ==
    Response("atleta_post", HTTP_400_BAD_REQUEST, "HTTPException",
             Detail("A Categoria nao encontrada", categoria_name), {})

\* if not centro_treinamento: raise HTTPException(400, ...): the detail is
\* formatted with categoria_name.
PostCentroNotFound(atleta_in, categoria_name, centro_treinamento_name) ==
    Response("atleta_post", HTTP_400_BAD_REQUEST, "HTTPException",
             Detail("O centro de treinamento nao foi encontrado",
                    categoria_name), {})

\* Mutant: the duplicate message is formatted with the athlete's nome.
PostExceptNamesNome(atleta_in, atleta_out) ==
    Response("atleta_post", HTTP_303_SEE_OTHER, "HTTPException",
             Detail("Ja existe um atleta cadastrado com o cpf", atleta_out.nome),
             {})

\* except IntegrityError: raise HTTPException(303, ...)
PostExcept(atleta_in, atleta_out) ==
    Response("atleta_post", HTTP_303_SEE_OTHER, "HTTPException",
             Detail("Ja existe um atleta cadastrado com o cpf", atleta_out.cpf),
             {})

AtletaPost(atleta_in, utcnow) ==
    LET categoria_name == atleta_in.categoria.nome
        centro_treinamento_name == atleta_in.centro_treinamento.nome
        categoria == CategoriaByNome(categoria_name)
        centro_treinamento == CentroByNome(centro_treinamento_name)
    IN  IF categoria = {}
        THEN /\ last' = PostCategoriaNotFound(atleta_in, categoria_name)
             /\ UNCHANGED <<store, nextUuid, nextPk, history, reqs>>
        ELSE IF centro_treinamento = {}
        THEN /\ last' = PostCentroNotFound(atleta_in, categoria_name,
                                           centro_treinamento_name)
             /\ UNCHANGED <<store, nextUuid, nextPk, history, reqs>>
        ELSE /\ nextUuid <= MaxUuid
             /\ nextUuid' = nextUuid + 1
             /\ LET atleta_out == AtletaOut(nextUuid, utcnow, atleta_in)
                    atleta_model ==
                        AtletaModel(nextPk.atletas, atleta_out,
                                    First(categoria), First(centro_treinamento))
                IN  IF AtletaIntegrityError(atletas, atleta_model)
                    THEN /\ last' = PostExcept(atleta_in, atleta_out)
                         /\ UNCHANGED <<atletas, nextPk, criados>>
                    ELSE /\ atletas' = atletas \cup {atleta_model}
                         /\ nextPk' = [nextPk EXCEPT !.atletas = @ + 1]
                         /\ criados' = criados \cup {atleta_out}
                         /\ last' = Response("atleta_post", HTTP_201_CREATED, "none",
                                             NoDetail, {atleta_out})
             /\ UNCHANGED <<categorias, centros, deleted, reqs>>

\* The three lookups share one shape: first match or 404 with the key.
AtletaGet(op, key, rows) ==
    /\ IF rows = {}
       THEN last' = Response(op, HTTP_404_NOT_FOUND, "HTTPException",
                             Detail("Atleta nao encontrada", key), {})
       ELSE \E atleta \in rows :
                last' = Response(op, HTTP_200_OK, "none", NoDetail,
                                 {AtletaRowOut(atleta)})
    /\ UNCHANGED <<store, nextUuid, nextPk, history, reqs>>

AtletaGetById(id) == AtletaGet("atleta_get_by_id", id, AtletaById(id))
AtletaGetByName(nome) == AtletaGet("atleta_get_by_name", nome, AtletaByNome(nome))
AtletaGetByCpf(cpf) == AtletaGet("atleta_get_by_cpf", cpf, AtletaByCpf(cpf))

\* A PATCH response, kept with the id and the body of its request.
PatchResponse(id, atleta_up, status, exc, detail, body) ==
    [op |-> "atleta_partial_update", status |-> status, exc |-> exc,
     detail |-> detail, body |-> body, id |-> id, atleta_up |-> atleta_up]

AtletaPartialUpdate(id, atleta_up) ==
    LET found == AtletaById(id)
    IN  IF found = {}
        THEN /\ last' = PatchResponse(id, atleta_up, HTTP_404_NOT_FOUND,
                                      "HTTPException",
                                      Detail("Atleta nao encontrada", id), {})
             /\ UNCHANGED <<store, nextUuid, nextPk, history, reqs>>
        ELSE LET atleta == First(found)
                 updated == SetAttrs(atleta, atleta_up)
             IN  IF AtletaIntegrityError(atletas, updated)
                 \* commit() raises IntegrityError; the handler has no
                 \* except clause, so it leaves the handler as it is
                 THEN /\ last' = PatchResponse(id, atleta_up, UNHANDLED,
                                               "IntegrityError", NoDetail, {})
                      /\ UNCHANGED <<store, nextUuid, nextPk, history, reqs>>
                 ELSE /\ atletas' = (atletas \ {atleta}) \cup {updated}
                      /\ criados' = {c \in criados : c.id # id}
                      /\ last' = PatchResponse(id, atleta_up, HTTP_200_OK,
                                               "none", NoDetail,
                                               {AtletaRowOut(updated)})
                      /\ UNCHANGED <<categorias, centros, nextUuid, nextPk,
                                     deleted, reqs>>

\* Mutant: the delete is never issued.
SessionDeleteSkipped(rows, atleta) == rows

\* await db_session.delete(atleta)
SessionDelete(rows, atleta) == rows \ {atleta}

AtletaDelete(id) ==
    LET found == AtletaById(id)
    IN  IF found = {}
        THEN /\ last' = Response("atleta_delete", HTTP_404_NOT_FOUND,
                                 "HTTPException",
                                 Detail("Atleta nao encontrada", id), {})
             /\ UNCHANGED <<store, nextUuid, nextPk, history, reqs>>
        ELSE /\ atletas' = SessionDelete(atletas, First(found))
             /\ deleted' = deleted \cup {id}
             /\ criados' = {c \in criados : c.id # id}
             /\ last' = Response("atleta_delete", HTTP_204_NO_CONTENT,
                                 "none", NoDetail, {})
             /\ UNCHANGED <<categorias, centros, nextUuid, nextPk, reqs>>

\* The PATCH bodies tried on an id: every body on an id that has a row; on
\* an id with none, where the handler raises before it reads the body, the
\* empty body and the bodies that set peso alone.
BodiesTried(id) ==
    IF AtletaById(id) = {}
    THEN {atleta_up \in AtletaUpdate : DOMAIN atleta_up \subseteq {"peso"}}
    ELSE AtletaUpdate

PartialUpdateRequest ==
    \E id \in Uuids : \E atleta_up \in BodiesTried(id) :
       AtletaPartialUpdate(id, atleta_up)

Next ==
    \/ \E categoria_in \in CategoriaIn : CategoriaCreate(categoria_in)
    \/ \E id \in Uuids : CategoriaGetById(id)
    \/ \E centro_treinamento_in \in CentroTreinamentoIn :
          CentroCreate(centro_treinamento_in)
    \/ \E id \in Uuids : CentroGetById(id)
    \/ \E atleta_in \in AtletaIn, utcnow \in Times : AtletaPost(atleta_in, utcnow)
    \/ \E id \in Uuids : AtletaGetById(id)
    \/ \E nome \in AtletaNomes : AtletaGetByName(nome)
    \/ \E cpf \in Cpfs : AtletaGetByCpf(cpf)
    \/ PartialUpdateRequest
    \/ \E id \in Uuids : AtletaDelete(id)

Spec == Init /\ [][Next]_vars

\* ============================================================ claims
NoDupNome(rows) == \A r1, r2 \in rows : r1.nome = r2.nome => r1 = r2
NoDupCpf(rows) == \A r1, r2 \in rows : r1.cpf = r2.cpf => r1 = r2
Failed303 ==
    /\ last'.status = HTTP_303_SEE_OTHER
    /\ last'.exc = "HTTPException"

\* C1: a Category or TrainingCenter create on a store that already holds a
\* row with the same nome fails with 303 and leaves the three tables as
\* they were, and no step leaves two Category rows or two TrainingCenter
\* rows with one nome.
C1_DuplicateNomeRejected ==
    [][ /\ NoDupNome(categorias') /\ NoDupNome(centros')
        /\ last'.op = "categoria_create" =>
              \A categoria_in \in CategoriaIn :
                 (CategoriaCreate(categoria_in)
                    /\ CategoriaByNome(categoria_in.nome) # {})
                 => (Failed303 /\ last'.detail.value = categoria_in.nome
                       /\ UNCHANGED store)
        /\ last'.op = "centro_create" =>
              \A centro_treinamento_in \in CentroTreinamentoIn :
                 (CentroCreate(centro_treinamento_in)
                    /\ CentroByNome(centro_treinamento_in.nome) # {})
                 => (Failed303
                       /\ last'.detail.value = centro_treinamento_in.nome
                       /\ UNCHANGED store) ]_vars

\* A duplicate Category create has been rejected, beside a stored
\* TrainingCenter.
C1_Witness ==
    /\ last.op = "categoria_create"
    /\ last.status = HTTP_303_SEE_OTHER
    /\ CategoriaByNome(last.detail.value) # {}
    /\ centros # {}

\* C2: an Athlete create whose categoria.nome or centro_treinamento.nome
\* matches no row fails with 400 and the three tables stay as they were.
C2_BadReferenceNoPersistence ==
    [][ last'.op = "atleta_post" =>
          \A atleta_in \in AtletaIn, utcnow \in Times :
             (AtletaPost(atleta_in, utcnow)
                /\ (\/ CategoriaByNome(atleta_in.categoria.nome) = {}
                    \/ CentroByNome(atleta_in.centro_treinamento.nome) = {}))
             => (/\ last'.status = HTTP_400_BAD_REQUEST
                 /\ last'.exc = "HTTPException"
                 /\ UNCHANGED store) ]_vars

\* An Athlete create has failed with 400 on a store that holds a category
\* and an athlete.
C2_Witness ==
    /\ last.op = "atleta_post"
    /\ last.status = HTTP_400_BAD_REQUEST
    /\ categorias # {}
    /\ atletas # {}

RowOf(rows, id) == CHOOSE a \in rows : a.id = id

\* The step changes, of the Athlete row id names, exactly the fields
\* atleta_up sets, to the values it gives; no other row of any table changes.
PatchFrame(id, atleta_up) ==
    LET old == RowOf(atletas, id)
        new == RowOf(atletas', id)
    IN  /\ \E a \in atletas' : a.id = id
        /\ \A k \in DOMAIN atleta_up : new[k] = atleta_up[k]
        /\ \A k \in (DOMAIN old) \ (DOMAIN atleta_up) : new[k] = old[k]
        /\ atletas' \ {new} = atletas \ {old}
        /\ UNCHANGED <<categorias, centros>>

\* The cpf atleta_up sets is the cpf of a row other than id's.
CpfTaken(id, atleta_up) ==
    /\ "cpf" \in DOMAIN atleta_up
    /\ \E a \in atletas : a.id # id /\ a.cpf = atleta_up.cpf

\* C4 as stated: every partialUpdate on an existing Athlete changes exactly
\* the fields present in the patch to the patch values and nothing else; on
\* an id with no row it fails with 404 and changes nothing.
C4_PatchAlwaysApplies ==
    [][ last'.op = "atleta_partial_update" =>
          IF AtletaById(last'.id) # {}
          THEN PatchFrame(last'.id, last'.atleta_up)
          ELSE /\ last'.status = HTTP_404_NOT_FOUND
               /\ UNCHANGED store ]_vars

\* C4 amended: partialUpdate on an existing Athlete, with a patch that sets
\* no cpf another row holds, answers 200 with the updated row and changes
\* exactly the fields present in the patch to the patch values and nothing
\* else; with a patch that sets the cpf of another row it is rejected and
\* changes nothing; on an id with no row it fails with 404 and changes
\* nothing.
C4_PatchFrame ==
    [][ last'.op = "atleta_partial_update" =>
          IF AtletaById(last'.id) = {}
          THEN /\ last'.status = HTTP_404_NOT_FOUND
               /\ last'.exc = "HTTPException"
               /\ UNCHANGED store
          ELSE IF CpfTaken(last'.id, last'.atleta_up)
          THEN /\ last'.status # HTTP_200_OK
               /\ UNCHANGED store
          ELSE /\ last'.status = HTTP_200_OK
               /\ PatchFrame(last'.id, last'.atleta_up)
               /\ last'.body = {AtletaRowOut(RowOf(atletas', last'.id))} ]_vars

\* A PATCH that sets peso alone has been applied to one of two athletes.
C4_Witness ==
    /\ last.op = "atleta_partial_update"
    /\ last.status = HTTP_200_OK
    /\ DOMAIN last.atleta_up = {"peso"}
    /\ Cardinality(atletas) = 2
    /\ \E a \in atletas : a.id = last.id /\ a.peso = last.atleta_up.peso
    /\ \E a \in atletas : a.id # last.id /\ a.peso # last.atleta_up.peso

\* C5: once a delete has succeeded on an id, no row has that id in any
\* later state and getById on it fails with 404; a delete on an id with a
\* row answers 204 and removes that row alone; a delete on an id with no
\* row fails with 404 and removes nothing.
C5_DeletedStaysGone ==
    [][ /\ deleted \subseteq deleted'
        /\ \A id \in deleted' : \A a \in atletas' : a.id # id
        /\ last'.op = "atleta_get_by_id" =>
              \A id \in deleted :
                 AtletaGetById(id) => /\ last'.status = HTTP_404_NOT_FOUND
                                      /\ last'.exc = "HTTPException"
        /\ last'.op = "atleta_delete" =>
              \A id \in Uuids :
                 AtletaDelete(id) =>
                    IF AtletaById(id) = {}
                    THEN /\ last'.status = HTTP_404_NOT_FOUND
                         /\ last'.exc = "HTTPException"
                         /\ UNCHANGED store
                    ELSE /\ last'.status = HTTP_204_NO_CONTENT
                         /\ atletas' = atletas \ AtletaById(id)
                         /\ id \in deleted'
                         /\ UNCHANGED <<categorias, centros>> ]_vars

\* getById has failed with 404 on a deleted id, after a later create.
C5_Witness ==
    /\ last.op = "atleta_get_by_id"
    /\ last.status = HTTP_404_NOT_FOUND
    /\ last.detail.value \in deleted
    /\ \E a \in atletas : a.id > last.detail.value

\* C6: a 201 of Athlete create carries the uuid4() value and a utcnow()
\* value and, as long as no PATCH or DELETE has committed on that athlete,
\* the row read back is that response field for field, names of category
\* and training center included, and getById on its id answers 200 with it.
C6_CreateGetRoundTrip ==
    /\ (last.op = "atleta_post" /\ last.status = HTTP_201_CREATED) =>
          \E o \in last.body :
             /\ last.body = {o}
             /\ o.id = nextUuid - 1
             /\ o.criado_em \in Times
             /\ o \in criados
    /\ \A c \in criados : \E a \in atletas : a.id = c.id /\ AtletaRowOut(a) = c
    /\ last.op = "atleta_get_by_id" =>
          \A c \in criados :
             /\ last.status = HTTP_404_NOT_FOUND => last.detail.value # c.id
             /\ last.status = HTTP_200_OK =>
                   \A o \in last.body : o.id = c.id => o = c

\* getById has answered 200 with the create response of an athlete of the
\* second category.
C6_Witness ==
    /\ last.op = "atleta_get_by_id"
    /\ last.status = HTTP_200_OK
    /\ last.body # {}
    /\ last.body \subseteq criados
    /\ \E o \in last.body : o.categoria.nome = "Scale"

\* C7 as stated: the 400 of Athlete create names the missing
\* categoria.nome when the category is absent, and the missing
\* centro_treinamento.nome when the category exists and the training
\* center is absent.
C7_BadReferenceNamesMissing ==
    [][ (last'.op = "atleta_post" /\ last'.status = HTTP_400_BAD_REQUEST) =>
          \A atleta_in \in AtletaIn, utcnow \in Times :
             AtletaPost(atleta_in, utcnow) =>
                IF CategoriaByNome(atleta_in.categoria.nome) = {}
                THEN last'.detail.value = atleta_in.categoria.nome
                ELSE last'.detail.value = atleta_in.centro_treinamento.nome
      ]_vars

\* Every Athlete row's foreign keys name rows of their tables.
ForeignKeysValid(as, cs, ts) ==
    \A a \in as : /\ \E c \in cs : c.pk_id = a.categoria_id
                  /\ \E t \in ts : t.pk_id = a.centro_treinamento_id

\* C8: after every step each Athlete row's categoria_id and
\* centro_treinamento_id are pk_ids of stored rows; at a 201 of create they
\* are the rows whose nome the request gave; and no later step changes an
\* athlete's foreign keys or removes or changes a Category or
\* TrainingCenter row.
C8_ForeignKeysResolve ==
    [][ /\ ForeignKeysValid(atletas', categorias', centros')
        /\ (last'.op = "atleta_post" /\ last'.status = HTTP_201_CREATED) =>
              \A o \in last'.body :
                 \E a \in atletas' \ atletas :
                    /\ a.id = o.id
                    /\ \E c \in categorias' :
                          c.pk_id = a.categoria_id /\ c.nome = o.categoria.nome
                    /\ \E t \in centros' :
                          /\ t.pk_id = a.centro_treinamento_id
                          /\ t.nome = o.centro_treinamento.nome
        /\ \A a \in atletas, b \in atletas' :
              a.id = b.id => /\ a.categoria_id = b.categoria_id
                             /\ a.centro_treinamento_id = b.centro_treinamento_id
        /\ categorias \subseteq categorias'
        /\ centros \subseteq centros' ]_vars

\* An athlete of the second category is stored, its keys resolved.
C8_Witness ==
    /\ Cardinality(categorias) = 2
    /\ \E a \in atletas : \E c \in categorias :
          c.pk_id = a.categoria_id /\ c.pk_id # a.centro_treinamento_id

\* C10 as stated: every failure is an HTTPException of status 404, 400 or
\* 303 raised by the handler, and a failed operation leaves the tables as
\* they were.
C10_FailuresTranslated ==
    [][ /\ last'.exc \in {"none", "HTTPException"}
        /\ last'.exc = "HTTPException" =>
              last'.status \in {HTTP_404_NOT_FOUND, HTTP_400_BAD_REQUEST,
                                HTTP_303_SEE_OTHER}
        /\ last'.exc # "none" => UNCHANGED store ]_vars

\* =================================================== concurrent creates
\* Each create request is a task that runs to its next await: the two
\* lookups of the Athlete create are one step each, and commit() is two
\* steps of the store, the INSERT it flushes and the COMMIT.  The store
\* enforces a unique key as a relational store does: an INSERT of a key a
\* committed row holds fails, and an INSERT of a key another open
\* transaction has inserted waits for that transaction to end.
Reqs == 1..NReq

\* The stores the requests arrive at: empty; one category and one training
\* center; and those with one athlete.
BaseCategoria == CategoriaModel(1, CategoriaOut(1, [nome |-> "Iniciante"]))
BaseCentro ==
    CentroTreinamentoModel(1, CentroTreinamentoOut(2,
        [nome |-> "CT King", endereco |-> "Rua X", proprietario |-> "Marcos"]))
BaseAtleta ==
    AtletaModel(1, AtletaOut(3, 1000,
        [nome |-> "Joao", cpf |-> "11111111111", idade |-> 25, peso |-> 75,
         altura |-> 170, sexo |-> "M", categoria |-> [nome |-> "Iniciante"],
         centro_treinamento |-> [nome |-> "CT King"]]),
        BaseCategoria, BaseCentro)
BaseStores ==
    { [categorias |-> {}, centros |-> {}, atletas |-> {}],
      [categorias |-> {BaseCategoria}, centros |-> {BaseCentro},
       atletas |-> {}],
      [categorias |-> {BaseCategoria}, centros |-> {BaseCentro},
       atletas |-> {BaseAtleta}] }

\* The create requests that arrive.
Arrivals ==
    [kind : {"categoria"}, input : CategoriaIn]
      \cup [kind : {"centro"}, input : CentroTreinamentoIn]
      \cup [kind : {"atleta"}, input : {a \in AtletaIn : a.peso = 75}]

\* The unique key of a request's row, and the rows of its table that hold it.
KeyOf(arrival) ==
    IF arrival.kind = "atleta" THEN arrival.input.cpf ELSE arrival.input.nome
Holders(kind, key) ==
    CASE kind = "categoria" -> CategoriaByNome(key)
      [] kind = "centro" -> CentroByNome(key)
      [] kind = "atleta" -> AtletaByCpf(key)

NoResponse == Response("none", HTTP_200_OK, "none", NoDetail, {})

\* A request as it arrives; fresh keeps whether its key was stored then.
Task(arrival, fresh) ==
    [kind |-> arrival.kind, input |-> arrival.input, pc |-> "start",
     categoria |-> {}, centro_treinamento |-> {}, out |-> {}, row |-> {},
     resp |-> NoResponse, fresh |-> fresh]

InitConc ==
    /\ \E s \in BaseStores :
          /\ categorias = s.categorias
          /\ centros = s.centros
          /\ atletas = s.atletas
          /\ nextUuid = 1 + Cardinality(s.categorias) + Cardinality(s.centros)
                          + Cardinality(s.atletas)
          /\ nextPk = [categorias |-> 1 + Cardinality(s.categorias),
                       centros |-> 1 + Cardinality(s.centros),
                       atletas |-> 1 + Cardinality(s.atletas)]
    /\ reqs \in { [r \in Reqs |->
                     Task(f[r], Holders(f[r].kind, KeyOf(f[r])) = {})] :
                  f \in [Reqs -> Arrivals] }
    /\ last = NoResponse
    /\ criados = {}
    /\ deleted = {}

Done(r, resp) == [reqs EXCEPT ![r].pc = "done", ![r].resp = resp]

\* Category create up to its await: uuid4(), the model, session.add.
ConcCategoriaBegin(r) ==
    /\ reqs[r].kind = "categoria" /\ reqs[r].pc = "start"
    /\ reqs' = [reqs EXCEPT ![r].pc = "insert",
                   ![r].out = {CategoriaOut(nextUuid, reqs[r].input)}]
    /\ nextUuid' = nextUuid + 1
    /\ UNCHANGED <<store, nextPk, last, history>>

\* TrainingCenter create up to its await.
ConcCentroBegin(r) ==
    /\ reqs[r].kind = "centro" /\ reqs[r].pc = "start"
    /\ reqs' = [reqs EXCEPT ![r].pc = "insert",
                   ![r].out = {CentroTreinamentoOut(nextUuid, reqs[r].input)}]
    /\ nextUuid' = nextUuid + 1
    /\ UNCHANGED <<store, nextPk, last, history>>

\* Athlete create: the category lookup and the check on its result.
ConcPostLookupCategoria(r) ==
    /\ reqs[r].kind = "atleta" /\ reqs[r].pc = "start"
    /\ LET atleta_in == reqs[r].input
           categoria == CategoriaByNome(atleta_in.categoria.nome)
       IN  IF categoria = {}
           THEN reqs' = Done(r, PostCategoriaNotFound(atleta_in,
                                    atleta_in.categoria.nome))
           ELSE reqs' = [reqs EXCEPT ![r].pc = "lookup_centro",
                            ![r].categoria = {First(categoria)}]
    /\ UNCHANGED <<store, nextUuid, nextPk, last, history>>

\* Athlete create: the training-center lookup, the check on its result,
\* then uuid4(), utcnow(), the model and session.add, up to the await.
ConcPostLookupCentro(r, utcnow) ==
    /\ reqs[r].kind = "atleta" /\ reqs[r].pc = "lookup_centro"
    /\ LET atleta_in == reqs[r].input
           centro_treinamento ==
               CentroByNome(atleta_in.centro_treinamento.nome)
       IN  IF centro_treinamento = {}
           THEN /\ reqs' = Done(r, PostCentroNotFound(atleta_in,
                                      atleta_in.categoria.nome,
                                      atleta_in.centro_treinamento.nome))
                /\ UNCHANGED nextUuid
           ELSE /\ reqs' = [reqs EXCEPT ![r].pc = "insert",
                               ![r].centro_treinamento =
                                   {First(centro_treinamento)},
                               ![r].out =
                                   {AtletaOut(nextUuid, utcnow, atleta_in)}]
                /\ nextUuid' = nextUuid + 1
    /\ UNCHANGED <<store, nextPk, last, history>>

\* The row commit() flushes, with the pk_id the table's sequence gives it.
ModelOf(q) ==
    CASE q.kind = "categoria" -> CategoriaModel(nextPk.categorias, First(q.out))
      [] q.kind = "centro" ->
            CentroTreinamentoModel(nextPk.centros, First(q.out))
      [] q.kind = "atleta" ->
            AtletaModel(nextPk.atletas, First(q.out), First(q.categoria),
                        First(q.centro_treinamento))

\* The handler's except clause.
ExceptOf(q) ==
    CASE q.kind = "categoria" -> CategoriaExcept(q.input, First(q.out))
      [] q.kind = "centro" -> CentroExcept(q.input, First(q.out))
      [] q.kind = "atleta" -> PostExcept(q.input, First(q.out))

\* The 201 of a create.
CreatedOf(q) ==
    Response(CASE q.kind = "categoria" -> "categoria_create"
               [] q.kind = "centro" -> "centro_create"
               [] q.kind = "atleta" -> "atleta_post",
             HTTP_201_CREATED, "none", NoDetail, q.out)

\* Another open transaction has inserted the key of r's row.
KeyLocked(r) ==
    \E r2 \in Reqs \ {r} :
       /\ reqs[r2].pc = "commit"
       /\ reqs[r2].kind = reqs[r].kind
       /\ KeyOf(reqs[r2]) = KeyOf(reqs[r])

\* commit(), first half: the INSERT.  It raises IntegrityError on a key a
\* committed row holds, which the handler turns into its 303.
ConcInsert(r) ==
    /\ reqs[r].pc = "insert"
    /\ ~KeyLocked(r)
    /\ LET q == reqs[r]
       IN  IF Holders(q.kind, KeyOf(q)) # {}
           THEN /\ reqs' = Done(r, ExceptOf(q))
                /\ UNCHANGED nextPk
           ELSE /\ reqs' = [reqs EXCEPT ![r].pc = "commit",
                               ![r].row = {ModelOf(q)}]
                /\ nextPk' = [nextPk EXCEPT
                                 ![CASE q.kind = "categoria" -> "categorias"
                                     [] q.kind = "centro" -> "centros"
                                     [] q.kind = "atleta" -> "atletas"] = @ + 1]
    /\ UNCHANGED <<store, nextUuid, last, history>>

\* commit(), second half: the COMMIT, and the handler returns its 201.
ConcCommit(r) ==
    /\ reqs[r].pc = "commit"
    /\ LET q == reqs[r]
       IN  /\ categorias' =
                 IF q.kind = "categoria" THEN categorias \cup q.row
                 ELSE categorias
           /\ centros' = IF q.kind = "centro" THEN centros \cup q.row ELSE centros
           /\ atletas' = IF q.kind = "atleta" THEN atletas \cup q.row ELSE atletas
           /\ reqs' = Done(r, CreatedOf(q))
    /\ UNCHANGED <<nextUuid, nextPk, last, history>>

NextConc ==
    \/ \E r \in Reqs : ConcCategoriaBegin(r)
    \/ \E r \in Reqs : ConcCentroBegin(r)
    \/ \E r \in Reqs : ConcPostLookupCategoria(r)
    \/ \E r \in Reqs, utcnow \in Times : ConcPostLookupCentro(r, utcnow)
    \/ \E r \in Reqs : ConcInsert(r)
    \/ \E r \in Reqs : ConcCommit(r)

SpecConc == InitConc /\ [][NextConc]_vars

\* ------------------------------------------------ claims on the creates
Ended(r) == reqs[r].pc = "done"
Won(r) ==
    /\ reqs[r].resp.status = HTTP_201_CREATED
    /\ reqs[r].resp.exc = "none"
Lost(r) ==
    /\ reqs[r].resp.status = HTTP_303_SEE_OTHER
    /\ reqs[r].resp.exc = "HTTPException"
SameKey(r1, r2) ==
    /\ reqs[r1].kind = reqs[r2].kind
    /\ KeyOf(reqs[r1]) = KeyOf(reqs[r2])
StoreKeysUnique ==
    NoDupNome(categorias) /\ NoDupNome(centros) /\ NoDupCpf(atletas)

\* C9 as stated: of any two create requests with one unique key that have
\* both ended, one has committed its row with 201 and the other has ended
\* with 303, and the store holds exactly one row with the key, never two.
C9_ExactlyOneCommits ==
    /\ StoreKeysUnique
    /\ \A r1, r2 \in Reqs :
          (r1 # r2 /\ SameKey(r1, r2) /\ Ended(r1) /\ Ended(r2)) =>
             /\ (Won(r1) /\ Lost(r2)) \/ (Won(r2) /\ Lost(r1))
             /\ Cardinality(Holders(reqs[r1].kind, KeyOf(reqs[r1]))) = 1

\* The ended requests with the key of r that passed their reference checks.
Contenders(r) ==
    {g \in Reqs : /\ SameKey(g, r) /\ Ended(g)
                  /\ reqs[g].resp.status # HTTP_400_BAD_REQUEST}

\* C9: the store never holds two rows with one key; and of the ended create
\* requests with one key that no row held when they arrived, leaving out
\* those refused with 400 for a missing category or training center,
\* exactly one has committed its row with 201, every other has ended with
\* 303, and the store holds that one row and no other with the key.
C9_OneWinsOnFreshKey ==
    /\ StoreKeysUnique
    /\ \A r \in Reqs :
          (Ended(r) /\ reqs[r].fresh
             /\ reqs[r].resp.status # HTTP_400_BAD_REQUEST) =>
             /\ Cardinality({g \in Contenders(r) : Won(g)}) = 1
             /\ \A g \in Contenders(r) : Won(g) \/ Lost(g)
             /\ \E g \in Contenders(r) :
                   /\ Won(g)
                   /\ Holders(reqs[r].kind, KeyOf(reqs[r])) = reqs[g].row

\* Two Athlete creates with one cpf no row held have both ended, and the
\* one that passed its lookups first has the 303 while the other has
\* committed.
C9_Witness ==
    \E l, w \in Reqs :
       /\ l # w /\ SameKey(l, w)
       /\ reqs[l].kind = "atleta" /\ reqs[l].fresh
       /\ Ended(l) /\ Ended(w)
       /\ Lost(l) /\ Won(w)
       /\ First(reqs[l].out).id < First(reqs[w].out).id
       /\ AtletaByCpf(KeyOf(reqs[w])) = reqs[w].row

====
